---- MODULE Spec2Model ----
(***************************************************************************)
(* Order lifecycle and financial ledger of enhanced_app.py: the pricing    *)
(* function calculate_cost, the workflow table, the payment ledger         *)
(* (add_payment), the customer aggregates (update_customer_stats) and the  *)
(* order handlers (submit_order, update_order, delete_order,               *)
(* update_status, admin_approve_order, admin_update_payment_status) over   *)
(* the three tables orders, customers and payments of factory.db.          *)
(*                                                                         *)
(* Money is kept in hundredths of a rupee (the code rounds every cost to   *)
(* 2 decimals).  Columns that no handler reads back and no aggregate uses  *)
(* (country, state, city, pincode, address, product_material,              *)
(* delivery_date, notes, created_by, priority, assigned_to, distance_km,   *)
(* payment method / reference / dates) are left out of the rows.           *)
(***************************************************************************)
EXTENDS Integers, Sequences, FiniteSets, TLC

(***************************************************************************)
(* CONFIGURATION                                                           *)
(***************************************************************************)

\* PRODUCT_RATES: rate per running foot, keyed by (product_type, dimension).
PRODUCT_RATES ==
  [k \in { <<"Chain Link", "3ft / 12 Gauge">>, <<"Chain Link", "4ft / 12 Gauge">>,
           <<"Chain Link", "4ft / 10 Gauge">>, <<"Chain Link", "5ft / 10 Gauge">>,
           <<"Chain Link", "6ft / 10 Gauge">>, <<"Chain Link", "6ft / 8 Gauge">>,
           <<"Chain Link", "8ft / 8 Gauge">>,  <<"Chain Link", "10ft / 8 Gauge">>,
           <<"Barbed Wire", "12x12 Gauge">>,   <<"Barbed Wire", "12x14 Gauge">>,
           <<"Barbed Wire", "14x14 Gauge">> } |->
     CASE k = <<"Chain Link", "3ft / 12 Gauge">>  -> 80
       [] k = <<"Chain Link", "4ft / 12 Gauge">>  -> 95
       [] k = <<"Chain Link", "4ft / 10 Gauge">>  -> 110
       [] k = <<"Chain Link", "5ft / 10 Gauge">>  -> 135
       [] k = <<"Chain Link", "6ft / 10 Gauge">>  -> 165
       [] k = <<"Chain Link", "6ft / 8 Gauge">>   -> 180
       [] k = <<"Chain Link", "8ft / 8 Gauge">>   -> 195
       [] k = <<"Chain Link", "10ft / 8 Gauge">>  -> 225
       [] k = <<"Barbed Wire", "12x12 Gauge">>    -> 65
       [] k = <<"Barbed Wire", "12x14 Gauge">>    -> 70
       [] k = <<"Barbed Wire", "14x14 Gauge">>    -> 75]

\* PRODUCT_RATES.get((product_type, dimension), 120)
DefaultRate == 120

RateOf(product_type, dimension) ==
  IF <<product_type, dimension>> \in DOMAIN PRODUCT_RATES
    THEN PRODUCT_RATES[<<product_type, dimension>>]
    ELSE DefaultRate

\* WORKFLOW_STEPS: the ordered status labels of each order type.
WORKFLOW_STEPS ==
  [t \in {"Material Purchase", "Fencing Contract Job"} |->
     IF t = "Material Purchase"
       THEN << "Order placed", "Processing", "Ready for dispatch", "In transit",
               "Delivered/installed", "Settled", "Closed", "Cancelled" >>
       ELSE << "Order placed", "Site Survey", "Estimation Approved",
               "Material Dispatched", "Installation Started",
               "Installation Complete", "Handover Done", "Settled", "Closed",
               "Cancelled" >>]

\* WORKFLOW_STEPS.get(order_type, WORKFLOW_STEPS["Material Purchase"]), as
\* order_details and edit_order look the sequence up.
WorkflowFor(order_type) ==
  IF order_type \in DOMAIN WORKFLOW_STEPS
    THEN WORKFLOW_STEPS[order_type]
    ELSE WORKFLOW_STEPS["Material Purchase"]

Range(s) == { s[i] : i \in DOMAIN s }

(***************************************************************************)
(* FORM VALUES                                                             *)
(* A numeric form field is a string; float() parses it or raises           *)
(* ValueError.  Num(n) is the text of the integer n, NonNumeric a text     *)
(* float() rejects.  A missing or empty field is replaced by 0 before      *)
(* calculate_cost is called, which is Num(0).                              *)
(***************************************************************************)
Num(n) == [numeric |-> TRUE, value |-> n]

NonNumeric == [numeric |-> FALSE, value |-> 0]

(***************************************************************************)
(* EXACT ARITHMETIC                                                        *)
(* calculate_cost multiplies a square root by rationals and rounds to 2    *)
(* decimals.  The values are computed exactly: a natural number too wide   *)
(* for one machine word is a sequence of 5 limbs in base 10000, least      *)
(* significant first.                                                      *)
(***************************************************************************)
RECURSIVE GCD(_, _)
GCD(a, b) == IF b = 0 THEN a ELSE GCD(b, a % b)

RECURSIVE CarryFrom(_, _, _)
CarryFrom(s, i, c) ==
  IF i > Len(s) THEN s
  ELSE LET v == s[i] + c
       IN  CarryFrom([s EXCEPT ![i] = v % 10000], i + 1, v \div 10000)

Carry(s) == CarryFrom(s, 1, 0)

BigSquare(n) ==
  LET hi == n \div 10000
      lo == n % 10000
  IN  Carry(<< lo * lo, 2 * hi * lo, hi * hi, 0, 0 >>)

BigScale(s, k) == Carry(<< s[1] * k, s[2] * k, s[3] * k, s[4] * k, s[5] * k >>)

BigEq(a, b) == \A i \in 1..Len(a) : a[i] = b[i]

BigLeq(a, b) ==
  LET d == { i \in 1..Len(a) : a[i] # b[i] }
  IN  d = {} \/ (LET top == CHOOSE i \in d : \A j \in d : j <= i
                 IN  a[top] < b[top])

\* The largest r with r*r <= N, found bit by bit from 2^26 down.
RECURSIVE ISqrtBits(_, _, _)
ISqrtBits(N, r, b) ==
  IF b < 0 THEN r
  ELSE IF BigLeq(BigSquare(r + 2^b), N)
         THEN ISqrtBits(N, r + 2^b, b - 1)
         ELSE ISqrtBits(N, r, b - 1)

ISqrt(N) == ISqrtBits(N, 0, 26)

\* round(X * sqrt(rad) / Y) to the nearest integer, a tie going to the even
\* neighbour as Python's round() does.  (On floats a product that is an exact
\* tie in the reals may fall a hair to either side; that touches only some
\* advance amounts of whole-unit orders.)  With R = floor(2 * X * sqrt(rad)) the
\* nearest integer is floor((R + Y) / (2 * Y)).
RoundScaled(X, Y, rad) ==
  LET g == GCD(X, Y)
      xr == X \div g
      y == Y \div g
      N == BigScale(BigSquare(xr), 4 * rad)
      R == ISqrt(N)
      q == (R + y) \div (2 * y)
      tie == BigEq(BigSquare(R), N) /\ (R + y) % (2 * y) = 0
  IN  IF X = 0 THEN 0
      ELSE IF tie /\ q % 2 = 1 THEN q - 1 ELSE q

(***************************************************************************)
(* PRICING: calculate_cost                                                 *)
(***************************************************************************)

\* float(acres) * 43560
SqFtPerAcre == 43560

\* `if acres and float(acres) > 0 ... elif no_of_units and float(no_of_units) > 0`:
\* float() raises ValueError on the first field it is asked to parse and
\* cannot; no_of_units is parsed only when acres is not > 0.
CostRaises(acres, no_of_units) ==
  \/ ~acres.numeric
  \/ (acres.value <= 0 /\ ~no_of_units.numeric)

\* The perimeter as an exact real pn / pd * sqrt(rad).
\* area_sqft = acres * 43560 = 66 * 66 * (10 * acres), so
\* side = 66 * sqrt(10 * acres) and
\* perimeter = 4 * side * 1.05 = 2772 / 10 * sqrt(10 * acres).
Perimeter(acres, no_of_units) ==
  IF acres.value > 0
    THEN [pn |-> (4 * 66 * 105) \div 10,
          pd |-> 10,
          rad |-> (acres.value * SqFtPerAcre) \div (66 * 66)]
  ELSE IF no_of_units.value > 0
    THEN [pn |-> no_of_units.value, pd |-> 1, rad |-> 1]
    ELSE [pn |-> 0, pd |-> 1, rad |-> 1]

\* soil_multiplier = {"Normal": 1.0, "Rocky": 1.4, "Clay": 1.2}, in tenths;
\* .get(soil_type, 1.0)
SoilTenths(soil_type) ==
  CASE soil_type = "Rocky" -> 14
    [] soil_type = "Clay"  -> 12
    [] OTHER               -> 10

\* installation_cost = material_cost * 0.25 * multiplier for a
\* "Fencing Contract Job", else 0: the factor in fortieths of material_cost.
InstallFortieths(order_type, soil_type) ==
  IF order_type = "Fencing Contract Job" THEN SoilTenths(soil_type) ELSE 0

\* The advance share of an order type without a workflow of its own taken
\* from "Material Purchase", as its workflow is where an order is displayed.
AdvancePercent_Recognized(order_type) ==
  IF order_type = "Fencing Contract Job" THEN 55 ELSE 40

\* advance = total_cost * 0.40 for "Material Purchase", else total_cost * 0.55
AdvancePercent(order_type) ==
  IF order_type = "Material Purchase" THEN 40 ELSE 55

\* The five rounded results, in hundredths.  Each is rounded on its own from
\* the unrounded product, as round(material_cost, 2), round(installation_cost,
\* 2), round(transport_cost, 2), round(total_cost, 2), round(advance, 2) do.
calculate_cost(acres, product_type, dimension, order_type, soil_type, no_of_units) ==
  IF CostRaises(acres, no_of_units)
    THEN [ok |-> FALSE, material_cost |-> 0, installation_cost |-> 0,
          transport_cost |-> 0, total_cost |-> 0, advance |-> 0]
    ELSE
      LET p    == Perimeter(acres, no_of_units)
          rate == RateOf(product_type, dimension)
          inst == InstallFortieths(order_type, soil_type)
          pct  == AdvancePercent(order_type)
      IN  [ok |-> TRUE,
           material_cost     |-> RoundScaled(rate * p.pn * 100, p.pd, p.rad),
           installation_cost |-> RoundScaled(rate * p.pn * 5 * inst, p.pd * 2, p.rad),
           transport_cost    |-> 0,
           total_cost        |-> RoundScaled(rate * p.pn * 5 * (40 + inst), p.pd * 2, p.rad),
           advance           |-> RoundScaled(rate * p.pn * (40 + inst) * pct, p.pd * 40, p.rad)]

(***************************************************************************)
(* THE STORE: factory.db                                                   *)
(*   orders    : order_id    -> row                                        *)
(*   customers : customer_id -> row                                        *)
(*   payments  : payment_id  -> row                                        *)
(* Identifiers are "ORD-"/"CUST-"/"PAY-" + 8 hex digits of a fresh uuid4;  *)
(* the n-th identifier drawn is modelled as the number n.  Timestamps are  *)
(* datetime.now(): created_at is the position of the insert in time, and   *)
(* updated_at records whether the row was stamped (0 is SQL NULL).         *)
(***************************************************************************)
VARIABLES
  orders,     \* the orders table
  customers,  \* the customers table
  payments,   \* the payments table
  nOrd,       \* order identifiers drawn so far
  nPay,       \* payment identifiers drawn so far
  reqs,       \* requests in flight: each one's position and locals
  call        \* helper calls as the runs that inspect them record them:
              \* the arguments and result of the last one, or the mails tried

vars == << orders, customers, payments, nOrd, nPay, reqs, call >>

RECURSIVE SumTotalCost(_, _)
SumTotalCost(ords, ids) ==
  IF ids = {} THEN 0
  ELSE LET o == CHOOSE i \in ids : TRUE
       IN  ords[o].total_cost + SumTotalCost(ords, ids \ {o})

RECURSIVE SumAmount(_, _)
SumAmount(pays, ids) ==
  IF ids = {} THEN 0
  ELSE LET p == CHOOSE i \in ids : TRUE
       IN  pays[p].amount + SumAmount(pays, ids \ {p})

MaxOf(S) == IF S = {} THEN 0 ELSE CHOOSE m \in S : \A n \in S : n <= m

OrdersOf(ords, customer_id) ==
  { o \in DOMAIN ords : ords[o].customer_id = customer_id }

PaymentsOf(pays, order_id) ==
  { p \in DOMAIN pays : pays[p].order_id = order_id }

\* SELECT customer_id FROM customers WHERE mobile = ?
CustomerByMobile(custs, mobile) ==
  { c \in DOMAIN custs : custs[c].mobile = mobile }

\* get_or_create_customer, the SELECT: the customer_id of the mobile number,
\* 0 when fetchone() returns None.
LookupCustomer(custs, mobile) ==
  IF CustomerByMobile(custs, mobile) = {} THEN 0
  ELSE CHOOSE c \in CustomerByMobile(custs, mobile) : TRUE

\* get_or_create_customer on a customers table whose mobile column is not
\* UNIQUE: the INSERT after a SELECT that found nothing always succeeds.
WriteCustomer_NoConstraint(custs, existing, mobile, name) ==
  IF existing # 0
    THEN [ok |-> TRUE, customer_id |-> existing,
          customers |-> [custs EXCEPT ![existing].name = name]]
    ELSE LET customer_id == Cardinality(DOMAIN custs) + 1
         IN  [ok |-> TRUE, customer_id |-> customer_id,
              customers |->
                [c \in DOMAIN custs \cup {customer_id} |->
                   IF c = customer_id
                     THEN [name |-> name, mobile |-> mobile,
                           total_orders |-> 0, total_spent |-> 0,
                           last_order_date |-> 0]
                     ELSE custs[c]]]

\* get_or_create_customer always taking its INSERT branch, on a table whose
\* mobile column is not UNIQUE.
WriteCustomer_Insert(custs, existing, mobile, name) ==
  LET customer_id == Cardinality(DOMAIN custs) + 1
  IN  [ok |-> TRUE, customer_id |-> customer_id,
       customers |->
         [c \in DOMAIN custs \cup {customer_id} |->
            IF c = customer_id
              THEN [name |-> name, mobile |-> mobile,
                    total_orders |-> 0, total_spent |-> 0,
                    last_order_date |-> 0]
              ELSE custs[c]]]

\* get_or_create_customer, the write that follows the SELECT: the row found
\* is overwritten with the new contact fields, or a row is inserted with the
\* column defaults total_orders = 0, total_spent = 0 and no last_order_date.
\* mobile is UNIQUE: an INSERT of a number that is stored by now raises
\* IntegrityError and writes nothing.
WriteCustomer(custs, existing, mobile, name) ==
  IF existing # 0
    THEN [ok |-> TRUE, customer_id |-> existing,
          customers |-> [custs EXCEPT ![existing].name = name]]
  ELSE IF CustomerByMobile(custs, mobile) # {}
    THEN [ok |-> FALSE, customer_id |-> 0, customers |-> custs]
    ELSE LET customer_id == Cardinality(DOMAIN custs) + 1
         IN  [ok |-> TRUE, customer_id |-> customer_id,
              customers |->
                [c \in DOMAIN custs \cup {customer_id} |->
                   IF c = customer_id
                     THEN [name |-> name, mobile |-> mobile,
                           total_orders |-> 0, total_spent |-> 0,
                           last_order_date |-> 0]
                     ELSE custs[c]]]

get_or_create_customer(custs, mobile, name) ==
  WriteCustomer(custs, LookupCustomer(custs, mobile), mobile, name)

\* update_customer_stats summing only the orders that are not cancelled, as
\* the revenue figures of the dashboard do.
update_customer_stats_NotCancelled(custs, ords, customer_id) ==
  IF customer_id \notin DOMAIN custs THEN custs
  ELSE LET mine == OrdersOf(ords, customer_id)
           live == { o \in mine : ords[o].status # "Cancelled" }
       IN  [custs EXCEPT ![customer_id] =
              [@ EXCEPT !.total_orders = Cardinality(live),
                        !.total_spent = SumTotalCost(ords, live),
                        !.last_order_date = MaxOf({ ords[o].created_at : o \in mine })]]

\* update_customer_stats left out: the aggregates stay as stored.
update_customer_stats_Skipped(custs, ords, customer_id) == custs

\* update_customer_stats adding the customer's orders to the stored
\* aggregates instead of overwriting them.
update_customer_stats_Accumulate(custs, ords, customer_id) ==
  IF customer_id \notin DOMAIN custs THEN custs
  ELSE LET mine == OrdersOf(ords, customer_id)
       IN  [custs EXCEPT ![customer_id] =
              [@ EXCEPT !.total_orders = @ + Cardinality(mine),
                        !.total_spent = @ + SumTotalCost(ords, mine),
                        !.last_order_date = MaxOf({ ords[o].created_at : o \in mine })]]

\* update_customer_stats: one UPDATE that recomputes the three aggregates
\* from the orders of the customer; no row, no change.
update_customer_stats(custs, ords, customer_id) ==
  IF customer_id \notin DOMAIN custs THEN custs
  ELSE LET mine == OrdersOf(ords, customer_id)
       IN  [custs EXCEPT ![customer_id] =
              [@ EXCEPT !.total_orders = Cardinality(mine),
                        !.total_spent = SumTotalCost(ords, mine),
                        !.last_order_date = MaxOf({ ords[o].created_at : o \in mine })]]

\* The row submit_order inserts.
NewOrderRow(customer_id, mobile, order_type, cost, created_at) ==
  [customer_id       |-> customer_id,
   mobile            |-> mobile,
   order_type        |-> order_type,
   material_cost     |-> cost.material_cost,
   installation_cost |-> cost.installation_cost,
   transport_cost    |-> cost.transport_cost,
   total_cost        |-> cost.total_cost,
   advance_payment   |-> cost.advance,
   advance_paid      |-> 0,
   balance_due       |-> cost.total_cost,
   payment_status    |-> "Unpaid",
   status            |-> "Order placed",
   created_at        |-> created_at,
   updated_at        |-> 0]

InsertOrder(ords, order_id, row) ==
  [o \in DOMAIN ords \cup {order_id} |-> IF o = order_id THEN row ELSE ords[o]]

\* update_order's UPDATE starting the ledger of the re-priced order afresh:
\* advance_paid back to 0 and the whole new total due.
UpdatedOrderRow_ResetPaid(row, mobile, order_type, status, cost, current_paid) ==
  [row EXCEPT !.mobile            = mobile,
              !.order_type        = order_type,
              !.material_cost     = cost.material_cost,
              !.installation_cost = cost.installation_cost,
              !.transport_cost    = cost.transport_cost,
              !.total_cost        = cost.total_cost,
              !.advance_payment   = cost.advance,
              !.advance_paid      = 0,
              !.balance_due       = cost.total_cost,
              !.status            = status,
              !.updated_at        = 1]

\* update_order's UPDATE without the balance_due column: the balance stays
\* the one computed for the old total.
UpdatedOrderRow_StaleBalance(row, mobile, order_type, status, cost, current_paid) ==
  [row EXCEPT !.mobile            = mobile,
              !.order_type        = order_type,
              !.material_cost     = cost.material_cost,
              !.installation_cost = cost.installation_cost,
              !.transport_cost    = cost.transport_cost,
              !.total_cost        = cost.total_cost,
              !.advance_payment   = cost.advance,
              !.status            = status,
              !.updated_at        = 1]

\* The UPDATE of update_order: every form column, the new costs, and
\* balance_due computed from the advance_paid the handler read before.
UpdatedOrderRow(row, mobile, order_type, status, cost, current_paid) ==
  [row EXCEPT !.mobile            = mobile,
              !.order_type        = order_type,
              !.material_cost     = cost.material_cost,
              !.installation_cost = cost.installation_cost,
              !.transport_cost    = cost.transport_cost,
              !.total_cost        = cost.total_cost,
              !.advance_payment   = cost.advance,
              !.balance_due       = cost.total_cost - current_paid,
              !.status            = status,
              !.updated_at        = 1]

\* add_payment: the status it derives from the new balance.
PaymentStatusFor(new_balance) ==
  IF new_balance <= 0 THEN "Paid" ELSE "Partially Paid"

\* add_payment's UPDATE with the payment capped at what is still due.
PaidOrderRow_Capped(row, current_paid, amount) ==
  LET due         == row.total_cost - current_paid
      new_paid    == current_paid + (IF amount > due THEN (IF due > 0 THEN due ELSE 0) ELSE amount)
      new_balance == row.total_cost - new_paid
  IN  [row EXCEPT !.advance_paid   = new_paid,
                  !.balance_due    = new_balance,
                  !.payment_status = PaymentStatusFor(new_balance),
                  !.updated_at     = 1]

\* add_payment's UPDATE with the payment written over advance_paid instead
\* of added to it.
PaidOrderRow_Overwrite(row, current_paid, amount) ==
  LET new_balance == row.total_cost - amount
  IN  [row EXCEPT !.advance_paid   = amount,
                  !.balance_due    = new_balance,
                  !.payment_status = PaymentStatusFor(new_balance),
                  !.updated_at     = 1]

\* The UPDATE of add_payment, from the advance_paid read at the start of the
\* handler and the total_cost read inside the write transaction.
PaidOrderRow(row, current_paid, amount) ==
  LET new_paid    == current_paid + amount
      new_balance == row.total_cost - new_paid
  IN  [row EXCEPT !.advance_paid   = new_paid,
                  !.balance_due    = new_balance,
                  !.payment_status = PaymentStatusFor(new_balance),
                  !.updated_at     = 1]

\* add_payment keeping one payment row per order: the amount is added to the
\* row the order has, and a row is inserted only for the first payment.
InsertPayment_Upsert(pays, payment_id, order_id, customer_id, amount) ==
  IF PaymentsOf(pays, order_id) = {}
    THEN [p \in DOMAIN pays \cup {payment_id} |->
            IF p = payment_id
              THEN [order_id |-> order_id, customer_id |-> customer_id, amount |-> amount]
              ELSE pays[p]]
    ELSE LET had == CHOOSE p \in PaymentsOf(pays, order_id) : TRUE
         IN  [pays EXCEPT ![had].amount = @ + amount]

\* The INSERT of add_payment.
InsertPayment(pays, payment_id, order_id, customer_id, amount) ==
  [p \in DOMAIN pays \cup {payment_id} |->
     IF p = payment_id
       THEN [order_id |-> order_id, customer_id |-> customer_id, amount |-> amount]
       ELSE pays[p]]

\* admin_approve_order with a fallback label that no workflow contains.
ApprovedStatus_Approved(order_type) ==
  IF order_type \in DOMAIN WORKFLOW_STEPS
    THEN WORKFLOW_STEPS[order_type][2]
    ELSE "Approved"

\* admin_approve_order: the entry after 'Order placed' in
\* WORKFLOW_STEPS.get(order_type, []), 'Processing' when there is none.
ApprovedStatus(order_type) ==
  LET workflow == IF order_type \in DOMAIN WORKFLOW_STEPS
                    THEN WORKFLOW_STEPS[order_type] ELSE << >>
      at == { i \in DOMAIN workflow : workflow[i] = "Order placed" }
  IN  IF at = {} THEN "Processing"
      ELSE LET current_index == CHOOSE i \in at : \A j \in at : i <= j
           IN  IF current_index + 1 \in DOMAIN workflow
                 THEN workflow[current_index + 1]
                 ELSE "Processing"

\* The except branch of the successor lookup: ValueError when the status
\* is not in the list, IndexError when it is the last entry.
NoNextStatus == "NoNextStatus"

nextStatus_FromStart(category, currentStatus) ==
  IF category \in DOMAIN WORKFLOW_STEPS /\ currentStatus \in Range(WORKFLOW_STEPS[category])
    THEN WORKFLOW_STEPS[category][2]
    ELSE NoNextStatus

nextStatus_StayAtEnd(category, currentStatus) ==
  LET workflow == IF category \in DOMAIN WORKFLOW_STEPS
                    THEN WORKFLOW_STEPS[category] ELSE << >>
      at == { i \in DOMAIN workflow : workflow[i] = currentStatus }
  IN  IF at = {} THEN NoNextStatus
      ELSE LET current_index == CHOOSE i \in at : \A j \in at : i <= j
           IN  IF current_index + 2 \in DOMAIN workflow
                 THEN workflow[current_index + 1]
                 ELSE NoNextStatus

\* The successor lookup of admin_approve_order, for any status in place of
\* 'Order placed': workflow = WORKFLOW_STEPS.get(category, []), then
\* workflow[workflow.index(currentStatus) + 1].
nextStatus(category, currentStatus) ==
  LET workflow == IF category \in DOMAIN WORKFLOW_STEPS
                    THEN WORKFLOW_STEPS[category] ELSE << >>
      at == { i \in DOMAIN workflow : workflow[i] = currentStatus }
  IN  IF at = {} THEN NoNextStatus
      ELSE LET current_index == CHOOSE i \in at : \A j \in at : i <= j
           IN  IF current_index + 1 \in DOMAIN workflow
                 THEN workflow[current_index + 1]
                 ELSE NoNextStatus

\* The status UPDATE also settling the ledger of an order that is closed.
SetStatus_Settle(ords, order_id, new_status) ==
  IF order_id \in DOMAIN ords
    THEN [ords EXCEPT ![order_id].status = new_status, ![order_id].updated_at = 1,
                      ![order_id].payment_status =
                        IF new_status = "Closed" THEN "Paid" ELSE @,
                      ![order_id].balance_due =
                        IF new_status = "Closed" THEN 0 ELSE @]
    ELSE ords

\* UPDATE orders SET status = ?, updated_at = ? WHERE order_id = ?
SetStatus(ords, order_id, new_status) ==
  IF order_id \in DOMAIN ords
    THEN [ords EXCEPT ![order_id].status = new_status, ![order_id].updated_at = 1]
    ELSE ords

Without(f, gone) == [k \in DOMAIN f \ gone |-> f[k]]

(***************************************************************************)
(* BOUNDS AND INPUTS                                                       *)
(***************************************************************************)
\* orders created in a run of Spec and of ConcSpec
MaxOrders == 1
\* orders created in a run of SpecOrders
MaxCustomerOrders == 2
\* orders created in a run of SpecCreates
MaxCreates == 3
\* payments recorded in a run
MaxPayments == 2
\* requests in flight at once in ConcSpec
MaxInFlight == 2

\* The form values the handlers are given: the text of a number, or text
\* that float() rejects.
Mobiles == {"9000000001", "9000000002"}
Names == {"Asha"}
OrderTypes == {"Material Purchase", "Fencing Contract Job", "Walk-in"}
Products == { <<"Chain Link", "4ft / 12 Gauge">> }
SoilTypes == {"Rocky"}
AcresInputs == {Num(0), NonNumeric}
UnitInputs == {Num(0), Num(1), Num(2)}
StatusInputs == {"Site Survey", "Cancelled"}
PaymentStatusInputs == {"Refunded"}
\* payment amounts as typed into the form, in rupees
AmountInputs == {Num(0), Num(50), NonNumeric}

\* The form values of the pricing runs: a product without a rate of its
\* own, every soil of soil_multiplier and one outside it, whole acres.
PricedProducts ==
  { <<"Chain Link", "4ft / 12 Gauge">>, <<"Chain Link", "5ft / 10 Gauge">>,
    <<"Gate", "Custom">> }
PricedSoils == {"Normal", "Rocky", "Clay", "Sandy"}
PricedAcres == {Num(0), Num(1), Num(2), Num(3)}

\* calculate_cost on the form values above, computed once.
CostOf ==
  [product \in Products \cup PricedProducts, order_type \in OrderTypes,
   acres \in AcresInputs \cup PricedAcres, no_of_units \in UnitInputs,
   soil_type \in SoilTypes \cup PricedSoils |->
     calculate_cost(acres, product[1], product[2], order_type, soil_type, no_of_units)]

ZeroCost ==
  [ok |-> TRUE, material_cost |-> 0, installation_cost |-> 0,
   transport_cost |-> 0, total_cost |-> 0, advance |-> 0]

\* A request slot with no request in it.
Idle ==
  [pc |-> "idle", order_id |-> 0, customer_id |-> 0, current_paid |-> 0,
   amount |-> 0, mobile |-> "", name |-> "", order_type |-> "", status |-> "",
   cost |-> ZeroCost]

Slots == 1..MaxInFlight

NoCall == [fn |-> "none"]

Init ==
  /\ orders = << >>
  /\ customers = << >>
  /\ payments = << >>
  /\ nOrd = 0
  /\ nPay = 0
  /\ reqs = [r \in Slots |-> Idle]
  /\ call = NoCall

(***************************************************************************)
(* THE HANDLERS, each run from its first line to its last with no other    *)
(* request in between.  A handler that ends in an exception (flash         *)
(* 'danger', or an unhandled error) has written what it committed before.  *)
(***************************************************************************)

\* POST /submit_order
submit_order(mobile, name, product, order_type, acres, no_of_units, soil_type) ==
  LET got  == get_or_create_customer(customers, mobile, name)
      cost == CostOf[product, order_type, acres, no_of_units, soil_type]
      order_id == nOrd + 1
      stored == InsertOrder(orders, order_id,
                  NewOrderRow(got.customer_id, mobile, order_type, cost, order_id))
  IN  IF ~cost.ok
        THEN /\ customers' = got.customers
             /\ UNCHANGED << orders, payments, nOrd, nPay, reqs, call >>
        ELSE /\ orders' = stored
             /\ customers' = update_customer_stats(got.customers, stored, got.customer_id)
             /\ nOrd' = order_id
             /\ UNCHANGED << payments, nPay, reqs, call >>

\* update_order looking the customer up by the submitted mobile as
\* submit_order does, and pointing the order at the row found or inserted.
update_order_Relink(order_id, mobile, product, order_type, status, acres, no_of_units, soil_type) ==
  LET cost == CostOf[product, order_type, acres, no_of_units, soil_type]
  IN  IF ~cost.ok \/ order_id \notin DOMAIN orders
        THEN UNCHANGED vars
        ELSE LET got == get_or_create_customer(customers, mobile,
                          customers[orders[order_id].customer_id].name)
             IN  /\ orders' = [orders EXCEPT ![order_id] =
                                 [UpdatedOrderRow(@, mobile, order_type, status, cost,
                                                  @.advance_paid)
                                    EXCEPT !.customer_id = got.customer_id]]
                 /\ customers' = got.customers
                 /\ UNCHANGED << payments, nOrd, nPay, reqs, call >>

\* POST /update_order
update_order(order_id, mobile, product, order_type, status, acres, no_of_units, soil_type) ==
  LET cost == CostOf[product, order_type, acres, no_of_units, soil_type]
  IN  IF ~cost.ok \/ order_id \notin DOMAIN orders
        THEN UNCHANGED vars
        ELSE /\ orders' = [orders EXCEPT ![order_id] =
                             UpdatedOrderRow(@, mobile, order_type, status, cost,
                                             @.advance_paid)]
             /\ UNCHANGED << customers, payments, nOrd, nPay, reqs, call >>

\* delete_order without its second DELETE: the payment rows stay.
delete_order_KeepPayments(order_id) ==
  /\ orders' = Without(orders, {order_id})
  /\ UNCHANGED << customers, payments, nOrd, nPay, reqs, call >>

\* delete_order followed by update_customer_stats for the customer of the
\* order deleted.
delete_order_Recompute(order_id) ==
  /\ orders' = Without(orders, {order_id})
  /\ payments' = Without(payments, PaymentsOf(payments, order_id))
  /\ customers' = IF order_id \in DOMAIN orders
                    THEN update_customer_stats(customers, Without(orders, {order_id}),
                                               orders[order_id].customer_id)
                    ELSE customers
  /\ UNCHANGED << nOrd, nPay, reqs, call >>

\* POST /delete_order
delete_order(order_id) ==
  /\ orders' = Without(orders, {order_id})
  /\ payments' = Without(payments, PaymentsOf(payments, order_id))
  /\ UNCHANGED << customers, nOrd, nPay, reqs, call >>

\* POST /update_status
update_status(order_id, new_status) ==
  /\ orders' = SetStatus(orders, order_id, new_status)
  /\ UNCHANGED << customers, payments, nOrd, nPay, reqs, call >>

\* POST /add_payment/<order_id>
add_payment(order_id, amount) ==
  IF ~amount.numeric \/ order_id \notin DOMAIN orders
    THEN UNCHANGED vars
    ELSE /\ payments' = InsertPayment(payments, nPay + 1, order_id,
                                      orders[order_id].customer_id, amount.value * 100)
         /\ orders' = [orders EXCEPT ![order_id] =
                         PaidOrderRow(@, @.advance_paid, amount.value * 100)]
         /\ nPay' = nPay + 1
         /\ UNCHANGED << customers, nOrd, reqs, call >>

\* admin_approve_order advancing only an order that is at 'Order placed'.
admin_approve_order_Guarded(order_id) ==
  IF order_id \notin DOMAIN orders \/ orders[order_id].status # "Order placed"
    THEN UNCHANGED vars
    ELSE /\ orders' = SetStatus(orders, order_id,
                                ApprovedStatus(orders[order_id].order_type))
         /\ UNCHANGED << customers, payments, nOrd, nPay, reqs, call >>

\* POST /admin/approve_order
admin_approve_order(order_id) ==
  IF order_id \notin DOMAIN orders
    THEN UNCHANGED vars
    ELSE /\ orders' = SetStatus(orders, order_id,
                                ApprovedStatus(orders[order_id].order_type))
         /\ UNCHANGED << customers, payments, nOrd, nPay, reqs, call >>

\* POST /admin/update_payment_status
admin_update_payment_status(order_id, new_payment_status) ==
  /\ orders' = IF order_id \in DOMAIN orders
                 THEN [orders EXCEPT ![order_id].payment_status = new_payment_status,
                                     ![order_id].updated_at = 1]
                 ELSE orders
  /\ UNCHANGED << customers, payments, nOrd, nPay, reqs, call >>

(***************************************************************************)
(* THE RESPONSES.  The category a handler flashes is decided by the        *)
(* request and by the tables it ran on; it is no column of a table and is  *)
(* given here as a function of those.                                      *)
(***************************************************************************)

\* update_order flashing 'success' whenever the costs could be computed, as
\* it would without the SELECT of the row before the UPDATE.
update_order_flash_Success(ords, order_id, cost) ==
  IF ~cost.ok THEN "danger" ELSE "success"

\* update_order: 'danger' from the except clause, which a ValueError of
\* calculate_cost and the TypeError of fetchone()[0] on a missing row both
\* reach; 'success' after the commit.
update_order_flash(ords, order_id, cost) ==
  IF ~cost.ok \/ order_id \notin DOMAIN ords THEN "danger" ELSE "success"

\* update_status: the UPDATE raises nothing when it matches no row, and
\* 'success' is flashed after every commit.
update_status_flash(ords, order_id, new_status) == "success"

(***************************************************************************)
(* Spec: the six operations on orders and payments, one request at a time. *)
(***************************************************************************)
Next ==
  \/ /\ nOrd < MaxOrders
     /\ \E name \in Names, product \in Products, order_type \in OrderTypes,
           acres \in AcresInputs, no_of_units \in {Num(0), Num(1)},
           soil_type \in SoilTypes :
          submit_order("9000000001", name, product, order_type, acres,
                       no_of_units, soil_type)
  \/ \E order_id \in 1..MaxOrders, product \in Products, order_type \in OrderTypes,
        acres \in AcresInputs, no_of_units \in {Num(0), Num(1)},
        soil_type \in SoilTypes :
       update_order(order_id, "9000000001", product, order_type, "Site Survey",
                    acres, no_of_units, soil_type)
  \/ \E order_id \in 1..MaxOrders : delete_order(order_id)
  \/ \E order_id \in 1..MaxOrders, new_status \in StatusInputs :
       update_status(order_id, new_status)
  \/ /\ nPay < MaxPayments
     /\ \E order_id \in 1..MaxOrders, amount \in AmountInputs :
          add_payment(order_id, amount)
  \/ \E order_id \in 1..MaxOrders : admin_approve_order(order_id)

Spec == Init /\ [][Next]_vars

\* The six operations and the administrator's direct write of payment_status.
NextAdmin ==
  \/ Next
  \/ \E order_id \in 1..MaxOrders, new_payment_status \in PaymentStatusInputs :
       admin_update_payment_status(order_id, new_payment_status)

SpecAdmin == Init /\ [][NextAdmin]_vars

(***************************************************************************)
(* SpecOrders: orders of two customers created, edited and deleted, one    *)
(* request at a time.                                                      *)
(***************************************************************************)
NextOrders ==
  \/ /\ nOrd < MaxCustomerOrders
     /\ \E mobile \in Mobiles, name \in Names, product \in Products,
           no_of_units \in {Num(1), Num(2)}, soil_type \in SoilTypes :
          submit_order(mobile, name, product, "Material Purchase", Num(0),
                       no_of_units, soil_type)
  \/ \E order_id \in 1..MaxCustomerOrders, mobile \in Mobiles, product \in Products,
        no_of_units \in {Num(1), Num(2)}, soil_type \in SoilTypes :
       update_order(order_id, mobile, product, "Material Purchase", "Cancelled",
                    Num(0), no_of_units, soil_type)
  \/ \E order_id \in 1..MaxCustomerOrders : delete_order(order_id)

SpecOrders == Init /\ [][NextOrders]_vars

(***************************************************************************)
(* SpecCreates: orders created for two mobile numbers and their status     *)
(* set, with no order edited or deleted.                                   *)
(***************************************************************************)
NextCreates ==
  \/ /\ nOrd < MaxCreates
     /\ \E mobile \in Mobiles, name \in Names, product \in Products,
           acres \in AcresInputs, no_of_units \in {Num(1), Num(2)},
           soil_type \in SoilTypes :
          submit_order(mobile, name, product, "Material Purchase", acres,
                       no_of_units, soil_type)
  \/ \E order_id \in 1..MaxCreates : update_status(order_id, "Cancelled")

SpecCreates == Init /\ [][NextCreates]_vars

(***************************************************************************)
(* SpecLedger: orders of one customer created, re-priced, paid on and      *)
(* deleted, one request at a time.                                         *)
(***************************************************************************)
NextLedger ==
  \/ /\ nOrd < MaxCustomerOrders
     /\ \E name \in Names, product \in Products, no_of_units \in {Num(0), Num(1)},
           soil_type \in SoilTypes :
          submit_order("9000000001", name, product, "Material Purchase", Num(0),
                       no_of_units, soil_type)
  \/ \E order_id \in 1..MaxCustomerOrders, product \in Products,
        no_of_units \in {Num(1), Num(2)}, soil_type \in SoilTypes :
       update_order(order_id, "9000000001", product, "Material Purchase",
                    "Site Survey", Num(0), no_of_units, soil_type)
  \/ /\ nPay < MaxPayments
     /\ \E order_id \in 1..MaxCustomerOrders : add_payment(order_id, Num(50))
  \/ \E order_id \in 1..MaxCustomerOrders : delete_order(order_id)

SpecLedger == Init /\ [][NextLedger]_vars

(***************************************************************************)
(* SpecWorkflow: orders of the three order types created, their status set *)
(* by hand and by approval, and payments recorded, one request at a time.  *)
(***************************************************************************)
NextWorkflow ==
  \/ /\ nOrd < MaxCustomerOrders
     /\ \E name \in Names, product \in Products, order_type \in OrderTypes,
           soil_type \in SoilTypes :
          submit_order("9000000001", name, product, order_type, Num(0), Num(1),
                       soil_type)
  \/ \E order_id \in 1..MaxCustomerOrders, new_status \in {"Closed", "Cancelled"} :
       update_status(order_id, new_status)
  \/ \E order_id \in 1..MaxCustomerOrders : admin_approve_order(order_id)
  \/ /\ nPay < MaxPayments
     /\ \E order_id \in 1..MaxCustomerOrders : add_payment(order_id, Num(50))

SpecWorkflow == Init /\ [][NextWorkflow]_vars

(***************************************************************************)
(* SpecCustomers: orders created under two mobile numbers and two names,   *)
(* moved between the numbers by an edit, and deleted.                      *)
(***************************************************************************)
CustomerNames == {"Asha", "Binod"}

NextCustomers ==
  \/ /\ nOrd < MaxCustomerOrders
     /\ \E mobile \in Mobiles, name \in CustomerNames, product \in Products,
           acres \in AcresInputs, soil_type \in SoilTypes :
          submit_order(mobile, name, product, "Material Purchase", acres,
                       Num(1), soil_type)
  \/ \E order_id \in 1..MaxCustomerOrders, mobile \in Mobiles, product \in Products,
        soil_type \in SoilTypes :
       update_order(order_id, mobile, product, "Material Purchase", "Processing",
                    Num(0), Num(2), soil_type)
  \/ \E order_id \in 1..MaxCustomerOrders : delete_order(order_id)

SpecCustomers == Init /\ [][NextCustomers]_vars

(***************************************************************************)
(* SpecPricedOrders: one customer's orders created and edited over the     *)
(* pricing form values, and deleted.                                       *)
(***************************************************************************)
NextPricedOrders ==
  \/ /\ nOrd < MaxOrders
     /\ \E name \in Names, product \in PricedProducts, order_type \in OrderTypes,
           acres \in PricedAcres, no_of_units \in UnitInputs, soil_type \in PricedSoils :
          submit_order("9000000001", name, product, order_type, acres,
                       no_of_units, soil_type)
  \/ \E order_id \in 1..MaxOrders, product \in PricedProducts, order_type \in OrderTypes,
        acres \in PricedAcres, no_of_units \in UnitInputs, soil_type \in PricedSoils :
       update_order(order_id, "9000000001", product, order_type, "Processing",
                    acres, no_of_units, soil_type)
  \/ \E order_id \in 1..MaxOrders : delete_order(order_id)

SpecPricedOrders == Init /\ [][NextPricedOrders]_vars

(***************************************************************************)
(* SpecPricing: calculate_cost applied to the pricing form values, the     *)
(* tables left alone.                                                      *)
(***************************************************************************)
calculate_cost_call(acres, product, order_type, soil_type, no_of_units) ==
  /\ call' = [fn |-> "calculate_cost", acres |-> acres, product |-> product,
              order_type |-> order_type, soil_type |-> soil_type,
              no_of_units |-> no_of_units,
              result |-> CostOf[product, order_type, acres, no_of_units, soil_type]]
  /\ UNCHANGED << orders, customers, payments, nOrd, nPay, reqs >>

NextPricing ==
  \E acres \in PricedAcres, product \in PricedProducts, order_type \in OrderTypes,
     soil_type \in PricedSoils, no_of_units \in UnitInputs :
    calculate_cost_call(acres, product, order_type, soil_type, no_of_units)

SpecPricing == Init /\ [][NextPricing]_vars

(***************************************************************************)
(* SpecWorkflowTable: the successor lookup applied to every order type and *)
(* status label, the tables left alone.                                    *)
(***************************************************************************)
Categories ==
  { "Material Purchase", "Fencing Contract Job", "Walk-in", "material purchase",
    "Fencing Contract", "Repair", "" }

StatusLabels ==
  Range(WORKFLOW_STEPS["Material Purchase"])
    \cup Range(WORKFLOW_STEPS["Fencing Contract Job"]) \cup { "Approved" }

nextStatus_call(category, currentStatus) ==
  /\ call' = [fn |-> "nextStatus", category |-> category,
              currentStatus |-> currentStatus,
              result |-> nextStatus(category, currentStatus)]
  /\ UNCHANGED << orders, customers, payments, nOrd, nPay, reqs >>

NextWorkflowTable ==
  \E category \in Categories, currentStatus \in StatusLabels :
    nextStatus_call(category, currentStatus)

SpecWorkflowTable == Init /\ [][NextWorkflowTable]_vars

(***************************************************************************)
(* ConcSpec: requests served at the same time.  Each request has its own   *)
(* SQLite connection.  A SELECT issued before the connection's first       *)
(* INSERT or UPDATE reads the committed state and holds no lock afterwards;*)
(* the statements from the first write to commit() are one transaction,    *)
(* which other connections see whole or not at all.  A handler is          *)
(* therefore one step per SELECT that precedes its writes and one step per *)
(* transaction; reqs[r] holds the position and the local variables of the  *)
(* request in slot r.                                                      *)
(***************************************************************************)
InFlight(pcs) == Cardinality({r \in Slots : reqs[r].pc \in pcs})

Finish(r) == reqs' = [reqs EXCEPT ![r] = Idle]

\* add_payment up to the SELECT of customer_id and advance_paid.  A missing
\* order makes order_data None and the request ends in an unhandled
\* TypeError; text that float() rejects ends it before the connection opens.
add_payment_read(r, order_id, amount) ==
  /\ reqs[r].pc = "idle"
  /\ IF ~amount.numeric \/ order_id \notin DOMAIN orders
       THEN UNCHANGED vars
       ELSE /\ reqs' = [reqs EXCEPT ![r] =
                          [Idle EXCEPT !.pc = "payment_write",
                                       !.order_id = order_id,
                                       !.customer_id = orders[order_id].customer_id,
                                       !.current_paid = orders[order_id].advance_paid,
                                       !.amount = amount.value * 100]]
            /\ UNCHANGED << orders, customers, payments, nOrd, nPay, call >>

\* add_payment from the INSERT of the payment to commit(): total_cost is read
\* again inside the transaction, advance_paid is the value read before it.
\* When the order is gone by now fetchone() is None, the TypeError closes the
\* connection uncommitted and the INSERT is rolled back.
add_payment_write(r) ==
  /\ reqs[r].pc = "payment_write"
  /\ Finish(r)
  /\ IF reqs[r].order_id \notin DOMAIN orders
       THEN UNCHANGED << orders, customers, payments, nOrd, nPay, call >>
       ELSE /\ payments' = InsertPayment(payments, nPay + 1, reqs[r].order_id,
                                         reqs[r].customer_id, reqs[r].amount)
            /\ orders' = [orders EXCEPT ![reqs[r].order_id] =
                            PaidOrderRow(@, reqs[r].current_paid, reqs[r].amount)]
            /\ nPay' = nPay + 1
            /\ UNCHANGED << customers, nOrd, call >>

\* update_order up to the SELECT of advance_paid: the form is read and the
\* costs are recalculated first.
update_order_read(r, order_id, mobile, product, order_type, status, acres, no_of_units, soil_type) ==
  LET cost == CostOf[product, order_type, acres, no_of_units, soil_type]
  IN  /\ reqs[r].pc = "idle"
      /\ IF ~cost.ok \/ order_id \notin DOMAIN orders
           THEN UNCHANGED vars
           ELSE /\ reqs' = [reqs EXCEPT ![r] =
                              [Idle EXCEPT !.pc = "order_write",
                                           !.order_id = order_id,
                                           !.current_paid = orders[order_id].advance_paid,
                                           !.mobile = mobile,
                                           !.order_type = order_type,
                                           !.status = status,
                                           !.cost = cost]]
                /\ UNCHANGED << orders, customers, payments, nOrd, nPay, call >>

\* update_order's UPDATE and commit(): balance_due was computed from the
\* advance_paid read before.  An UPDATE of a row that is gone changes nothing.
update_order_write(r) ==
  /\ reqs[r].pc = "order_write"
  /\ Finish(r)
  /\ orders' = IF reqs[r].order_id \in DOMAIN orders
                 THEN [orders EXCEPT ![reqs[r].order_id] =
                         UpdatedOrderRow(@, reqs[r].mobile, reqs[r].order_type,
                                         reqs[r].status, reqs[r].cost,
                                         reqs[r].current_paid)]
                 ELSE orders
  /\ UNCHANGED << customers, payments, nOrd, nPay, call >>

\* submit_order up to the SELECT inside get_or_create_customer.
submit_order_read(r, mobile, name, product, order_type, acres, no_of_units, soil_type) ==
  /\ reqs[r].pc = "idle"
  /\ reqs' = [reqs EXCEPT ![r] =
                [Idle EXCEPT !.pc = "customer_write",
                             !.customer_id = LookupCustomer(customers, mobile),
                             !.mobile = mobile,
                             !.name = name,
                             !.order_type = order_type,
                             !.cost = CostOf[product, order_type, acres,
                                             no_of_units, soil_type]]]
  /\ UNCHANGED << orders, customers, payments, nOrd, nPay, call >>

\* get_or_create_customer's UPDATE or INSERT and commit(), then
\* calculate_cost: an IntegrityError or a ValueError ends the request in the
\* handler's except clause.
submit_order_customer(r) ==
  LET got == WriteCustomer(customers, reqs[r].customer_id, reqs[r].mobile, reqs[r].name)
  IN  /\ reqs[r].pc = "customer_write"
      /\ customers' = got.customers
      /\ reqs' = [reqs EXCEPT ![r] =
                    IF got.ok /\ reqs[r].cost.ok
                      THEN [@ EXCEPT !.pc = "order_insert",
                                     !.customer_id = got.customer_id]
                      ELSE Idle]
      /\ UNCHANGED << orders, payments, nOrd, nPay, call >>

\* submit_order's INSERT of the order and commit().
submit_order_insert(r) ==
  /\ reqs[r].pc = "order_insert"
  /\ orders' = InsertOrder(orders, nOrd + 1,
                           NewOrderRow(reqs[r].customer_id, reqs[r].mobile,
                                       reqs[r].order_type, reqs[r].cost, nOrd + 1))
  /\ nOrd' = nOrd + 1
  /\ reqs' = [reqs EXCEPT ![r].pc = "customer_stats", ![r].order_id = nOrd + 1]
  /\ UNCHANGED << customers, payments, nPay, call >>

\* submit_order's call of update_customer_stats, the last write of the request.
submit_order_stats(r) ==
  /\ reqs[r].pc = "customer_stats"
  /\ customers' = update_customer_stats(customers, orders, reqs[r].customer_id)
  /\ reqs' = [reqs EXCEPT ![r].pc = "notify"]
  /\ UNCHANGED << orders, payments, nOrd, nPay, call >>

\* The mails tried so far, oldest first: the order each was about and what
\* send_email_notification returned.
Notifications == IF call.fn = "send_email_notification" THEN call.log ELSE << >>

\* The notification step undoing the order when the mail is not sent.
submit_order_notify_Rollback(r, sent) ==
  /\ reqs[r].pc = "notify"
  /\ call' = [fn |-> "send_email_notification",
              log |-> Append(Notifications,
                             [order_id |-> reqs[r].order_id, result |-> sent])]
  /\ orders' = IF sent THEN orders ELSE Without(orders, {reqs[r].order_id})
  /\ Finish(r)
  /\ UNCHANGED << customers, payments, nOrd, nPay >>

\* submit_order's call of send_email_notification, which returns True when
\* the mail went out and False when mail is not configured or SMTP failed;
\* either way the request ends with a flash and a redirect.
submit_order_notify(r, sent) ==
  /\ reqs[r].pc = "notify"
  /\ call' = [fn |-> "send_email_notification",
              log |-> Append(Notifications,
                             [order_id |-> reqs[r].order_id, result |-> sent])]
  /\ Finish(r)
  /\ UNCHANGED << orders, customers, payments, nOrd, nPay >>

NextConc ==
  \/ /\ nOrd + InFlight({"customer_write", "order_insert"}) < MaxOrders
     /\ \E r \in Slots, name \in Names, product \in Products, soil_type \in SoilTypes :
          submit_order_read(r, "9000000001", name, product, "Material Purchase",
                            Num(0), Num(1), soil_type)
  \/ \E r \in Slots : submit_order_customer(r)
  \/ \E r \in Slots : submit_order_insert(r)
  \/ \E r \in Slots : submit_order_stats(r)
  \/ \E r \in Slots, sent \in BOOLEAN : submit_order_notify(r, sent)
  \/ /\ nPay + InFlight({"payment_write"}) < MaxPayments
     /\ \E r \in Slots, order_id \in 1..MaxOrders : add_payment_read(r, order_id, Num(50))
  \/ \E r \in Slots : add_payment_write(r)
  \/ \E r \in Slots, order_id \in 1..MaxOrders, product \in Products,
        no_of_units \in {Num(1), Num(2)}, soil_type \in SoilTypes :
       update_order_read(r, order_id, "9000000001", product, "Material Purchase",
                         "Site Survey", Num(0), no_of_units, soil_type)
  \/ \E r \in Slots : update_order_write(r)
  \/ \E order_id \in 1..MaxOrders : delete_order(order_id)

ConcSpec == Init /\ [][NextConc]_vars

(***************************************************************************)
(* SpecNotify: orders created for two mobile numbers, step by step up to   *)
(* the mail each creation tries to send, and their status set.             *)
(***************************************************************************)
NextNotify ==
  \/ /\ nOrd + InFlight({"customer_write", "order_insert"}) < MaxCustomerOrders
     /\ \E r \in Slots, mobile \in Mobiles, name \in Names, product \in Products,
           acres \in AcresInputs, soil_type \in SoilTypes :
          submit_order_read(r, mobile, name, product, "Material Purchase",
                            acres, Num(1), soil_type)
  \/ \E r \in Slots : submit_order_customer(r)
  \/ \E r \in Slots : submit_order_insert(r)
  \/ \E r \in Slots : submit_order_stats(r)
  \/ \E r \in Slots, sent \in BOOLEAN : submit_order_notify(r, sent)
  \/ \E order_id \in 1..MaxCustomerOrders : update_status(order_id, "Processing")

SpecNotify == Init /\ [][NextNotify]_vars

(***************************************************************************)
(* THE PROPERTIES                                                          *)
(***************************************************************************)

\* C1: in every state the six operations reach one request at a time, every
\* stored order has balance_due = total_cost - advance_paid.
C1_BalanceIsTotalMinusPaid ==
  \A o \in DOMAIN orders :
    orders[o].balance_due = orders[o].total_cost - orders[o].advance_paid

\* An order with a positive total that was edited after money was paid on it.
C1_Witness ==
  \E o \in DOMAIN orders :
    /\ orders[o].advance_paid > 0
    /\ orders[o].total_cost > orders[o].advance_paid
    /\ orders[o].status = "Site Survey"
    /\ orders[o].order_type = "Fencing Contract Job"

\* C2: in every state the operations reach one request at a time, the amounts
\* of the payment rows of a stored order add up to its advance_paid.
C2_PaymentsSumToPaid ==
  \A o \in DOMAIN orders :
    SumAmount(payments, PaymentsOf(payments, o)) = orders[o].advance_paid

\* An order with two payment rows of 50.00 each.
C2_Witness ==
  \E o \in DOMAIN orders :
    /\ Cardinality({ p \in PaymentsOf(payments, o) : payments[p].amount = 5000 }) = 2
    /\ orders[o].advance_paid = 10000

\* C3: when the add_payment requests on an order have all completed, none of
\* their updates is lost: advance_paid is the sum of the order's payment rows.
C3_NoLostPayment ==
  (\A r \in Slots : reqs[r].pc # "payment_write") =>
    \A o \in DOMAIN orders :
      orders[o].advance_paid = SumAmount(payments, PaymentsOf(payments, o))

\* C4: every stored order with balance_due <= 0 has payment_status 'Paid'.
C4_SettledIsPaid ==
  \A o \in DOMAIN orders :
    orders[o].balance_due <= 0 => orders[o].payment_status = "Paid"

\* C5: a payment of an amount <= 0 is rejected: the step adds no payment row
\* and leaves the order as it was.
C5_NonPositivePaymentRejected ==
  [][\A o \in 1..MaxOrders, amount \in AmountInputs :
       (amount.numeric /\ amount.value <= 0 /\ add_payment(o, amount))
         => UNCHANGED << payments, orders >>]_vars

\* C6: after an update_order that changes the total_cost of an order, the
\* total_spent of the order's customer is the sum of total_cost over the
\* orders of that customer.
C6_UpdateRecomputesCustomer ==
  [][\A o \in DOMAIN orders \cap DOMAIN orders' :
       orders'[o].total_cost # orders[o].total_cost =>
         LET c == orders'[o].customer_id
         IN  customers'[c].total_spent = SumTotalCost(orders', OrdersOf(orders', c))]_vars

\* C7 as stated: in every state, the status of every stored order is an
\* element of the workflow of the order's order_type (of Material Purchase
\* for an order_type without a workflow).
C7_StatusAlwaysInWorkflow ==
  \A o \in DOMAIN orders :
    orders[o].status \in Range(WorkflowFor(orders[o].order_type))

\* C7 as the code has it: the status submit_order stores with a new order and
\* the status admin_approve_order stores are elements of the workflow of the
\* order's order_type (of Material Purchase for an order_type without a
\* workflow); update_status and update_order store the label they are given.
C7_CreatedAndApprovedStatusInWorkflow ==
  [][\A o \in DOMAIN orders' :
       (o \notin DOMAIN orders \/ admin_approve_order(o)) =>
         orders'[o].status \in Range(WorkflowFor(orders'[o].order_type))]_vars

\* An approved order of an order_type that has no workflow of its own.
C7_Witness ==
  \E o \in DOMAIN orders :
    /\ orders[o].order_type = "Walk-in"
    /\ orders[o].status = "Processing"

\* C8: while update_order and add_payment requests on an order interleave,
\* every committed state of the order has balance_due = total_cost -
\* advance_paid.
C8_CommittedBalanceConsistent ==
  \A o \in DOMAIN orders :
    orders[o].balance_due + orders[o].advance_paid = orders[o].total_cost

\* C9: a submit_order whose acres is not a number writes nothing: no customer
\* row is created or overwritten and no order row is inserted.
C9_FailedCreateWritesNothing ==
  [][\A name \in Names, product \in Products, order_type \in OrderTypes,
        no_of_units \in UnitInputs, soil_type \in SoilTypes :
       submit_order("9000000001", name, product, order_type, NonNumeric,
                    no_of_units, soil_type)
         => UNCHANGED << customers, orders >>]_vars

\* C10: the step of submit_order that inserts an order stores it with
\* advance_paid = 0, balance_due = total_cost, payment_status 'Unpaid' and
\* status 'Order placed', and leaves the customer's total_orders one more and
\* total_spent the new total_cost more than its orders before the step gave.
C10_CreateStoresOrderAndCountsIt ==
  [][nOrd' = nOrd + 1 =>
       LET row == orders'[nOrd']
           c   == row.customer_id
           had == OrdersOf(orders, c)
       IN  /\ row.advance_paid = 0
           /\ row.balance_due = row.total_cost
           /\ row.payment_status = "Unpaid"
           /\ row.status = "Order placed"
           /\ customers'[c].total_orders = Cardinality(had) + 1
           /\ customers'[c].total_spent = SumTotalCost(orders, had) + row.total_cost]_vars

\* A customer whose second order, of another total than the first, was just
\* created.
C10_Witness ==
  /\ DOMAIN orders = {1, 2}
  /\ orders[1].customer_id = orders[2].customer_id
  /\ orders[1].total_cost # orders[2].total_cost
  /\ orders[2].updated_at = 0
  /\ customers[orders[2].customer_id].total_orders = 2
  /\ customers[orders[2].customer_id].total_spent =
       orders[1].total_cost + orders[2].total_cost

\* C11: while orders are only created and their status set, the total_orders
\* of every customer is the number of its orders and its total_spent the sum
\* of their total_cost, the cancelled orders included.
C11_CreatesKeepAggregates ==
  \A c \in DOMAIN customers :
    /\ customers[c].total_orders = Cardinality(OrdersOf(orders, c))
    /\ customers[c].total_spent = SumTotalCost(orders, OrdersOf(orders, c))

\* Three orders of 95.00, 190.00 and 190.00 for one mobile number, the first
\* cancelled.
C11_Witness ==
  /\ DOMAIN orders = {1, 2, 3}
  /\ \A o \in DOMAIN orders : orders[o].customer_id = 1
  /\ orders[1].status = "Cancelled" /\ orders[1].total_cost = 9500
  /\ orders[2].total_cost = 19000 /\ orders[3].total_cost = 19000
  /\ customers[1].total_orders = 3
  /\ customers[1].total_spent = 47500

\* C12: payment_status is 'Partially Paid' exactly for the orders with
\* 0 < advance_paid < total_cost, and an order that is neither paid up
\* (balance_due <= 0) nor partially paid has payment_status 'Unpaid'.
C12_PaymentStatusFollowsLedger ==
  \A o \in DOMAIN orders :
    LET partly == 0 < orders[o].advance_paid
                    /\ orders[o].advance_paid < orders[o].total_cost
    IN  /\ (orders[o].payment_status = "Partially Paid") <=> partly
        /\ (orders[o].balance_due > 0 /\ ~partly) =>
             orders[o].payment_status = "Unpaid"

\* C13: the payment_status of every stored order is one of 'Unpaid',
\* 'Partially Paid' and 'Paid'.
C13_PaymentStatusInEnum ==
  \A o \in DOMAIN orders :
    orders[o].payment_status \in {"Unpaid", "Partially Paid", "Paid"}

\* C14: add_payment enforces no cap.  Whatever the balance of the order,
\* one that is <= 0 already included, a payment row of the amount is stored,
\* advance_paid grows by the amount, balance_due falls by it, and
\* payment_status is 'Paid' when the new balance is <= 0.
C14_NoCapOnOverpayment ==
  [][\A o \in DOMAIN orders :
       add_payment(o, Num(50)) =>
         /\ nPay' = nPay + 1
         /\ payments'[nPay'].order_id = o
         /\ payments'[nPay'].amount = 5000
         /\ orders'[o].advance_paid = orders[o].advance_paid + 5000
         /\ orders'[o].balance_due = orders[o].balance_due - 5000
         /\ orders'[o].balance_due <= 0 => orders'[o].payment_status = "Paid"]_vars

\* An order that was paid up already when its last payment of 50.00 came: the
\* balance went from 0 to -50.00 and on to -100.00.
C14_Witness ==
  \E o \in DOMAIN orders :
    /\ orders[o].total_cost = 0
    /\ orders[o].advance_paid = 10000
    /\ orders[o].balance_due = -10000
    /\ orders[o].payment_status = "Paid"
    /\ Cardinality({ p \in DOMAIN payments : payments[p].order_id = o }) = 2

\* C15: update_order leaves advance_paid and the payment rows as they are:
\* it stores the new price of the order and balance_due = the new total_cost
\* minus the advance_paid the order had.
C15_UpdateKeepsPaid ==
  [][\A o \in DOMAIN orders, product \in Products,
        no_of_units \in {Num(1), Num(2)}, soil_type \in SoilTypes :
       update_order(o, "9000000001", product, "Material Purchase", "Site Survey",
                    Num(0), no_of_units, soil_type) =>
         /\ payments' = payments
         /\ orders'[o].advance_paid = orders[o].advance_paid
         /\ orders'[o].total_cost =
              CostOf[product, "Material Purchase", Num(0), no_of_units, soil_type].total_cost
         /\ orders'[o].balance_due = orders'[o].total_cost - orders[o].advance_paid]_vars

\* An order on which 50.00 was paid, re-priced afterwards to 190.00.
C15_Witness ==
  \E o \in DOMAIN orders :
    /\ orders[o].status = "Site Survey"
    /\ orders[o].total_cost = 19000
    /\ orders[o].advance_paid = 5000
    /\ orders[o].balance_due = 14000
    /\ \E p \in DOMAIN payments : payments[p].order_id = o /\ payments[p].amount = 5000

\* C16: update_order with an order_id that is not stored fails and writes
\* nothing: it flashes 'danger', and it has no step that changes a table.
C16_UpdateOfMissingOrderFails ==
  \A o \in (1..MaxCustomerOrders) \ DOMAIN orders, product \in Products,
     no_of_units \in {Num(1), Num(2)}, soil_type \in SoilTypes :
    /\ update_order_flash(orders, o,
         CostOf[product, "Material Purchase", Num(0), no_of_units, soil_type]) = "danger"
    /\ ~ ENABLED (/\ update_order(o, "9000000001", product, "Material Purchase",
                                  "Site Survey", Num(0), no_of_units, soil_type)
                  /\ << orders, customers, payments >>' # << orders, customers, payments >>)

\* The first of two orders is deleted, so that an edit form of it that is
\* still open posts an order_id that is stored no more.
C16_Witness ==
  /\ nOrd = 2
  /\ DOMAIN orders = {2}
  /\ DOMAIN customers = {1}

\* C17: update_status with an order_id that is not stored is not answered as
\* a successful change of status, and changes no order row.
C17_StatusOfMissingOrderReported ==
  \A o \in (1..MaxOrders) \ DOMAIN orders, new_status \in StatusInputs :
    /\ update_status_flash(orders, o, new_status) # "success"
    /\ ~ ENABLED (update_status(o, new_status) /\ orders' # orders)

\* C18: after delete_order(order_id) the order is not stored and no payment
\* row has its order_id; the other orders and the payment rows of the other
\* orders are as before.
C18_DeleteRemovesOrderAndPayments ==
  [][\A order_id \in 1..MaxCustomerOrders :
       delete_order(order_id) =>
         /\ order_id \notin DOMAIN orders'
         /\ \A p \in DOMAIN payments' : payments'[p].order_id # order_id
         /\ \A o \in DOMAIN orders \ {order_id} :
              o \in DOMAIN orders' /\ orders'[o] = orders[o]
         /\ \A p \in DOMAIN payments :
              payments[p].order_id # order_id =>
                p \in DOMAIN payments' /\ payments'[p] = payments[p]]_vars

\* Two orders with a payment each, the first order deleted: its payment row
\* is gone, the second order and its payment row are there.
C18_Witness ==
  /\ nOrd = 2 /\ nPay = 2
  /\ DOMAIN orders = {2}
  /\ Cardinality(DOMAIN payments) = 1
  /\ \A p \in DOMAIN payments : payments[p].order_id = 2
  /\ orders[2].advance_paid = 5000

\* C19: a step that removes an order leaves every customer row as it is,
\* total_orders, total_spent and last_order_date included; the aggregates of
\* the customer are those of its orders again once an order is created for it.
C19_DeleteKeepsAggregates ==
  [][/\ (DOMAIN orders' # DOMAIN orders /\ DOMAIN orders' \subseteq DOMAIN orders)
          => customers' = customers
     /\ nOrd' = nOrd + 1 =>
          LET c == orders'[nOrd'].customer_id
          IN  /\ customers'[c].total_orders = Cardinality(OrdersOf(orders', c))
              /\ customers'[c].total_spent = SumTotalCost(orders', OrdersOf(orders', c))]_vars

\* The customer's only order, of 95.00, is deleted: the row of the customer
\* still counts one order and 95.00 spent.
C19_Witness ==
  /\ nOrd = 1
  /\ orders = << >>
  /\ customers[1].total_orders = 1
  /\ customers[1].total_spent = 9500
  /\ customers[1].last_order_date = 1

\* C20: a step leaves every stored payment row as it is or removes it
\* together with the order it belongs to, and a step that records a payment
\* adds one row to those that were there.
C20_PaymentsAppendOnly ==
  [][/\ \A p \in DOMAIN payments :
          \/ p \in DOMAIN payments' /\ payments'[p] = payments[p]
          \/ /\ p \notin DOMAIN payments'
             /\ payments[p].order_id \in DOMAIN orders
             /\ payments[p].order_id \notin DOMAIN orders'
     /\ nPay' = nPay + 1 => DOMAIN payments' = DOMAIN payments \cup {nPay'}]_vars

\* An order with two payment rows of 50.00, re-priced since it was created.
C20_Witness ==
  \E o \in DOMAIN orders :
    /\ orders[o].status = "Site Survey"
    /\ payments = << [order_id |-> o, customer_id |-> 1, amount |-> 5000],
                     [order_id |-> o, customer_id |-> 1, amount |-> 5000] >>

\* C21: whatever the status of a stored order, admin_approve_order sets it
\* to the entry after 'Order placed' in the workflow of the order's
\* order_type: 'Processing' for Material Purchase, 'Site Survey' for Fencing
\* Contract Job, 'Processing' for an order_type without a workflow.
C21_ApproveIgnoresCurrentStatus ==
  \A o \in DOMAIN orders :
    LET approved == IF orders[o].order_type = "Fencing Contract Job"
                      THEN "Site Survey" ELSE "Processing"
    IN  /\ ENABLED (admin_approve_order(o) /\ orders'[o].status = approved)
        /\ ~ ENABLED (admin_approve_order(o) /\ orders'[o].status # approved)

\* A closed Fencing Contract Job and the approval that takes it back to
\* 'Site Survey'.
C21_Witness ==
  \E o \in DOMAIN orders :
    /\ orders[o].order_type = "Fencing Contract Job"
    /\ orders[o].status = "Closed"
    /\ ENABLED (admin_approve_order(o) /\ orders'[o].status = "Site Survey")


(***************************************************************************)
(* The successor lookup (SpecWorkflowTable)                                *)
(***************************************************************************)
\* The position of a status in a sequence of the table, 0 when absent.
PositionIn(workflow, status) ==
  IF status \in Range(workflow)
    THEN CHOOSE i \in DOMAIN workflow : workflow[i] = status
    ELSE 0

C24_OneCustomerPerMobile ==
  /\ \A c1, c2 \in DOMAIN customers :
       customers[c1].mobile = customers[c2].mobile => c1 = c2
  /\ \A mobile \in Mobiles, name \in CustomerNames, product \in Products, soil_type \in SoilTypes :
       LET stored == CustomerByMobile(customers, mobile)
           request == submit_order(mobile, name, product, "Material Purchase",
                                   Num(0), Num(1), soil_type)
           reused == \E c \in stored :
                       /\ DOMAIN customers' = DOMAIN customers
                       /\ customers'[c].name = name
                       /\ customers'[c].mobile = mobile
                       /\ nOrd + 1 \in DOMAIN orders'
                       /\ orders'[nOrd + 1].customer_id = c
           created == \E c \in DOMAIN customers' \ DOMAIN customers :
                        /\ DOMAIN customers' = DOMAIN customers \cup {c}
                        /\ customers'[c].name = name
                        /\ customers'[c].mobile = mobile
                        /\ nOrd + 1 \in DOMAIN orders'
                        /\ orders'[nOrd + 1].customer_id = c
           effect == IF stored # {} THEN reused ELSE created
       IN  /\ ENABLED (request /\ effect)
           /\ ~ ENABLED (request /\ ~effect)

\* A customer stored under one name whose number is submitted with another
\* name, next to a second customer.
C24_Witness ==
  /\ Cardinality(DOMAIN customers) = 2
  /\ \E c \in DOMAIN customers :
       /\ customers[c].name = "Asha"
       /\ customers[c].total_orders > 0
       /\ \E product \in Products, soil_type \in SoilTypes :
            ENABLED (/\ submit_order(customers[c].mobile, "Binod", product,
                                     "Material Purchase", Num(0), Num(1), soil_type)
                     /\ customers'[c].name = "Binod"
                     /\ DOMAIN customers' = DOMAIN customers)

(***************************************************************************)
(* Creation next to other requests (ConcSpec)                              *)
(***************************************************************************)
\* C25: in no committed state is an order row stored that the aggregates
\* of its customer do not yet include: total_orders, which one UPDATE
\* writes together with total_spent, counts every stored order of the
\* customer.
C25_NoOrderAheadOfAggregates ==
  \A c \in DOMAIN customers :
    customers[c].total_orders >= Cardinality(OrdersOf(orders, c))

(***************************************************************************)
(* Pricing (SpecPricedOrders, SpecPricing)                                 *)
(***************************************************************************)
\* C26: for every stored order, total_cost is exactly material_cost +
\* installation_cost + transport_cost, all four as stored in hundredths.
C26_StoredCostsAddUp ==
  \A o \in DOMAIN orders :
    orders[o].total_cost =
      orders[o].material_cost + orders[o].installation_cost + orders[o].transport_cost

(***************************************************************************)
(* The aggregates recomputed twice (SpecOrders)                            *)
(***************************************************************************)
\* C27: update_customer_stats run a second time for a customer, the orders
\* being the same, leaves total_orders, total_spent and last_order_date as
\* the first run left them, and touches no other customer.
C27_RecomputeIdempotent ==
  \A c \in DOMAIN customers :
    LET once  == update_customer_stats(customers, orders, c)
        twice == update_customer_stats(once, orders, c)
    IN  /\ twice[c].total_orders = once[c].total_orders
        /\ twice[c].total_spent = once[c].total_spent
        /\ twice[c].last_order_date = once[c].last_order_date
        /\ \A d \in DOMAIN customers \ {c} : twice[d] = customers[d]

\* A customer with orders whose stored aggregates are out of date: the
\* first run changes them, the second does not.
C27_Witness ==
  \E c \in DOMAIN customers :
    LET once  == update_customer_stats(customers, orders, c)
        twice == update_customer_stats(once, orders, c)
    IN  /\ OrdersOf(orders, c) # {}
        /\ once[c].total_spent # customers[c].total_spent
        /\ twice[c].total_spent = once[c].total_spent
        /\ twice[c].total_orders = once[c].total_orders

(***************************************************************************)
(* The mail of a new order (SpecNotify)                                    *)
(***************************************************************************)
\* C28: a request that has reached its notification step has its order
\* stored; an order stays stored after the mail about it was tried,
\* whether send_email_notification returned True or False; and for every
\* order created the mail was tried exactly once as soon as the creating
\* request has ended, and not at all before.
C28_NotificationNeverUndoesOrder ==
  /\ \A r \in Slots : reqs[r].pc = "notify" => reqs[r].order_id \in DOMAIN orders
  /\ \A i \in DOMAIN Notifications : Notifications[i].order_id \in DOMAIN orders
  /\ \A o \in 1..nOrd :
       Cardinality({ i \in DOMAIN Notifications : Notifications[i].order_id = o }) =
         IF \E r \in Slots : /\ reqs[r].pc \in {"customer_stats", "notify"}
                             /\ reqs[r].order_id = o
           THEN 0 ELSE 1

\* Two creations have ended, one with the mail sent and one with the mail
\* failed, and both orders are stored.
C28_Witness ==
  /\ \A r \in Slots : reqs[r].pc = "idle"
  /\ \E i, j \in DOMAIN Notifications :
       /\ Notifications[i].result
       /\ ~Notifications[j].result
       /\ Notifications[i].order_id \in DOMAIN orders
       /\ Notifications[j].order_id \in DOMAIN orders

\* C29: calculate_cost returns installation_cost 0 unless order_type is
\* exactly "Fencing Contract Job"; its advance is 40% of the total, rounded
\* to the hundredth, for exactly "Material Purchase" and 55% for every other
\* order_type, known or not; with acres and no_of_units both 0 every figure
\* is 0; and with acres > 0 the figures do not depend on no_of_units.
C29_CategoryRules ==
  call.fn = "calculate_cost" =>
    LET r   == call.result
        pct == IF call.order_type = "Material Purchase" THEN 40 ELSE 55
        off == 100 * r.advance - pct * r.total_cost
    IN  /\ r.ok
        /\ call.order_type # "Fencing Contract Job" => r.installation_cost = 0
        /\ (call.order_type = "Fencing Contract Job" /\ r.material_cost > 0) =>
             r.installation_cost > 0
        /\ -100 < off /\ off < 100
        /\ (call.acres.value = 0 /\ call.no_of_units.value = 0) =>
             /\ r.material_cost = 0
             /\ r.installation_cost = 0
             /\ r.transport_cost = 0
             /\ r.total_cost = 0
             /\ r.advance = 0
        /\ call.acres.value > 0 =>
             \A no_of_units \in UnitInputs :
               LET other == CostOf[call.product, call.order_type, call.acres,
                                   no_of_units, call.soil_type]
               IN  /\ other.material_cost = r.material_cost
                   /\ other.installation_cost = r.installation_cost
                   /\ other.transport_cost = r.transport_cost
                   /\ other.total_cost = r.total_cost
                   /\ other.advance = r.advance

\* An order type that is neither of the two, priced by area with a unit
\* count given as well: no installation, 55% advance.
C29_Witness ==
  /\ call.fn = "calculate_cost"
  /\ call.order_type = "Walk-in"
  /\ call.acres.value = 1
  /\ call.no_of_units.value = 2
  /\ call.result.total_cost > 0
  /\ call.result.installation_cost = 0
  /\ 100 * call.result.advance - 55 * call.result.total_cost \in -99..99

(***************************************************************************)
(* What a status change and a payment leave alone (SpecWorkflow)           *)
(***************************************************************************)
\* C30: update_status and admin_approve_order change nothing but the status
\* and updated_at of the order they name: every other column of it, every
\* other order, the payments and the customers stay as they are; and
\* add_payment leaves the status, the order_type and the cost columns of
\* the order as they are.
C30_StatusAndPaymentFrames ==
  \A o \in DOMAIN orders :
    LET status_frame ==
          /\ DOMAIN orders' = DOMAIN orders
          /\ \A p \in DOMAIN orders \ {o} : orders'[p] = orders[p]
          /\ [orders'[o] EXCEPT !.status = orders[o].status,
                                !.updated_at = orders[o].updated_at] = orders[o]
          /\ customers' = customers
          /\ payments' = payments
        payment_frame ==
          /\ orders'[o].status = orders[o].status
          /\ orders'[o].order_type = orders[o].order_type
          /\ orders'[o].material_cost = orders[o].material_cost
          /\ orders'[o].installation_cost = orders[o].installation_cost
          /\ orders'[o].transport_cost = orders[o].transport_cost
          /\ orders'[o].total_cost = orders[o].total_cost
          /\ orders'[o].advance_payment = orders[o].advance_payment
    IN  /\ \A new_status \in {"Closed", "Cancelled"} :
             /\ ENABLED (update_status(o, new_status) /\ status_frame)
             /\ ~ ENABLED (update_status(o, new_status) /\ ~status_frame)
        /\ ENABLED (admin_approve_order(o) /\ status_frame)
        /\ ~ ENABLED (admin_approve_order(o) /\ ~status_frame)
        /\ ENABLED (add_payment(o, Num(50)) /\ payment_frame)
        /\ ~ ENABLED (add_payment(o, Num(50)) /\ ~payment_frame)

\* A part-paid order that was cancelled, next to another order of the same
\* customer, with its status about to be set to "Closed".
C30_Witness ==
  \E o \in DOMAIN orders :
    /\ orders[o].status = "Cancelled"
    /\ orders[o].payment_status = "Partially Paid"
    /\ orders[o].balance_due > 0
    /\ PaymentsOf(payments, o) # {}
    /\ Cardinality(DOMAIN orders) = 2
    /\ ENABLED (/\ update_status(o, "Closed")
                /\ orders'[o].status = "Closed"
                /\ orders'[o].payment_status = "Partially Paid"
                /\ orders'[o].balance_due = orders[o].balance_due)

(***************************************************************************)
(* An edit and the customer of the order (SpecCustomers)                   *)
(***************************************************************************)
\* C31: update_order leaves the customer_id of the order and every customer
\* row as they are, whichever mobile number it stores on the order, so the
\* mobile of an order may differ from the mobile of its customer.
C31_UpdateKeepsCustomer ==
  \A o \in DOMAIN orders, mobile \in Mobiles, product \in Products, soil_type \in SoilTypes :
    LET request == update_order(o, mobile, product, "Material Purchase", "Processing",
                                Num(0), Num(2), soil_type)
        effect  == /\ orders'[o].mobile = mobile
                   /\ orders'[o].customer_id = orders[o].customer_id
                   /\ customers' = customers
    IN  /\ ENABLED (request /\ effect)
        /\ ~ ENABLED (request /\ ~effect)

\* An edited order that carries another mobile number than the customer it
\* points at, no customer being stored under the order's number.
C31_Witness ==
  \E o \in DOMAIN orders :
    /\ orders[o].updated_at = 1
    /\ orders[o].customer_id \in DOMAIN customers
    /\ orders[o].mobile # customers[orders[o].customer_id].mobile
    /\ CustomerByMobile(customers, orders[o].mobile) = {}

(***************************************************************************)
(* Two creations for one new mobile number (SpecNotify)                    *)
(***************************************************************************)
\* C32: with creations running at the same time, also two for the same
\* mobile number that was not stored when each of them looked it up, no two
\* customer rows hold the same mobile number and every stored order points
\* at a customer row that exists, the one stored under the order's number.
C32_ConcurrentCreatesOneCustomer ==
  /\ \A c1, c2 \in DOMAIN customers :
       c1 # c2 => customers[c1].mobile # customers[c2].mobile
  /\ \A o \in DOMAIN orders :
       /\ orders[o].customer_id \in DOMAIN customers
       /\ customers[orders[o].customer_id].mobile = orders[o].mobile

\* Two creations looked the same new number up and found nothing; the first
\* has inserted the customer and its order, and the second is at its INSERT,
\* which can only fail and end the request with nothing written.
C32_Witness ==
  \E r \in Slots :
    /\ reqs[r].pc = "customer_write"
    /\ reqs[r].customer_id = 0
    /\ reqs[r].cost.ok
    /\ CustomerByMobile(customers, reqs[r].mobile) # {}
    /\ \E o \in DOMAIN orders : orders[o].mobile = reqs[r].mobile
    /\ ENABLED (submit_order_customer(r) /\ customers' = customers
                  /\ reqs'[r].pc = "idle")
    /\ ~ ENABLED (submit_order_customer(r) /\ reqs'[r].pc # "idle")
====
